---- MODULE Spec2Model ----
(***************************************************************************)
(* Model of the NestJS / Firebase Functions template:                      *)
(*   - src/src/config/env.config.ts : class Env (typed access to           *)
(*     process.env with defaults)                                          *)
(*   - src/src/main.ts              : Express/NestJS bootstrap, the cached *)
(*     application instance and the Firebase request handler               *)
(*                                                                         *)
(* A JavaScript string is a sequence of one-character strings; a value     *)
(* that may be undefined is a record [defined, str]; a JavaScript number   *)
(* is a record [kind, neg, digits] holding the decimal numeral of an       *)
(* integer-valued double, NaN or Infinity.                                 *)
(***************************************************************************)
EXTENDS Integers, Sequences, FiniteSets, TLC

VARIABLES env, ret, refreshed, cachedApp, pc, app, result, created, listening,
          heap, heap0, tin, touts, tthrew,
          stack, req, body, pos, passed, outcome, seen, nexts,
          reads, dotenv

vars ==
  <<env, ret, refreshed, cachedApp, pc, app, result, created, listening,
    heap, heap0, tin, touts, tthrew,
    stack, req, body, pos, passed, outcome, seen, nexts,
    reads, dotenv>>

envVars == <<env, ret, refreshed, reads, dotenv>>

bootVars == <<cachedApp, pc, app, result, created, listening>>

trimVars == <<heap, heap0, tin, touts, tthrew>>

reqVars == <<stack, req, body, pos, passed, outcome, seen, nexts>>

(***************************************************************************)
(* Strings                                                                 *)
(***************************************************************************)

\* The characters String.prototype.trim and parseInt treat as white space
\* (the ones the input alphabets below use).
WhiteSpace == {" ", "\t", "\n"}

Digits == {"0", "1", "2", "3", "4", "5", "6", "7", "8", "9"}

DigitChars == <<"0", "1", "2", "3", "4", "5", "6", "7", "8", "9">>

DigitVal(c) == (CHOOSE i \in 1..10 : DigitChars[i] = c) - 1

Undefined == [defined |-> FALSE, str |-> <<>>]

Str(s) == [defined |-> TRUE, str |-> s]

RECURSIVE TrimStart(_)
TrimStart(s) ==
  IF s = <<>> THEN s
  ELSE IF Head(s) \in WhiteSpace THEN TrimStart(Tail(s))
  ELSE s

RECURSIVE TrimEnd(_)
TrimEnd(s) ==
  IF s = <<>> THEN s
  ELSE IF s[Len(s)] \in WhiteSpace THEN TrimEnd(SubSeq(s, 1, Len(s) - 1))
  ELSE s

\* Mutant: at most one white space character is removed from each end
StringTrim_Once(s) ==
  LET t == IF s # <<>> /\ Head(s) \in WhiteSpace THEN Tail(s) ELSE s
  IN IF t # <<>> /\ t[Len(t)] \in WhiteSpace THEN SubSeq(t, 1, Len(t) - 1) ELSE t

\* String.prototype.trim
StringTrim(s) == TrimEnd(TrimStart(s))

\* String.prototype.toLowerCase, on the letters of the input alphabets
LowerChar(c) ==
  CASE c = "T" -> "t"
    [] c = "R" -> "r"
    [] c = "U" -> "u"
    [] c = "E" -> "e"
    [] c = "D" -> "d"
    [] c = "V" -> "v"
    [] OTHER -> c

StringToLowerCase(s) == [i \in 1..Len(s) |-> LowerChar(s[i])]

\* String.prototype.split(','): the pieces between the commas, empty ones kept
RECURSIVE StringSplit(_)
StringSplit(s) ==
  IF \A i \in 1..Len(s) : s[i] # ","
  THEN <<s>>
  ELSE LET i == CHOOSE k \in 1..Len(s) :
                  s[k] = "," /\ \A j \in 1..(k - 1) : s[j] # ","
       IN <<SubSeq(s, 1, i - 1)>> \o StringSplit(SubSeq(s, i + 1, Len(s)))

\* Mutant: the segments are not trimmed
MapTrim_Missing(items) == items

\* Array.prototype.map((value) => value.trim())
MapTrim(items) == [i \in 1..Len(items) |-> StringTrim(items[i])]

NonEmpty(value) == Len(value) > 0

\* Mutant: the empty segments are kept
FilterNonEmpty_KeepAll(items) == items

\* Array.prototype.filter((value) => value.length > 0)
FilterNonEmpty(items) == SelectSeq(items, NonEmpty)

(***************************************************************************)
(* Numbers: the values Number.parseInt can return                          *)
(***************************************************************************)

NaN == [kind |-> "NaN", neg |-> FALSE, digits |-> <<>>]

Infinity == [kind |-> "Infinity", neg |-> FALSE, digits |-> <<>>]

\* An integer-valued double; digits is its decimal numeral without leading zeros
IntNumber(neg, digits) == [kind |-> "int", neg |-> neg, digits |-> digits]

RECURSIVE NatDigits(_)
NatDigits(n) ==
  IF n < 10 THEN <<DigitChars[n + 1]>>
  ELSE NatDigits(n \div 10) \o <<DigitChars[(n % 10) + 1]>>

\* The number written as the integer literal n in the source
Num(n) == IntNumber(FALSE, NatDigits(n))

RECURSIVE StripZeros(_)
StripZeros(z) ==
  IF Len(z) > 1 /\ Head(z) = "0" THEN StripZeros(Tail(z)) ELSE z

\* a <= b for two numerals without leading zeros
DigitsLeq(a, b) ==
  \/ Len(a) < Len(b)
  \/ /\ Len(a) = Len(b)
     /\ \/ a = b
        \/ \E i \in 1..Len(a) :
             /\ \A j \in 1..(i - 1) : a[j] = b[j]
             /\ DigitVal(a[i]) < DigitVal(b[i])

RECURSIVE IncDigits(_)
IncDigits(d) ==
  IF d = <<>> THEN <<"1">>
  ELSE IF d[Len(d)] = "9" THEN IncDigits(SubSeq(d, 1, Len(d) - 1)) \o <<"0">>
  ELSE SubSeq(d, 1, Len(d) - 1) \o <<DigitChars[DigitVal(d[Len(d)]) + 2]>>

\* 2^53 = 9007199254740992: up to here every integer is a double
TwoPow53 ==
  <<"9", "0", "0", "7", "1", "9", "9", "2", "5", "4", "7", "4", "0", "9", "9", "2">>

\* The double nearest to the integer with numeral d (round to nearest, ties to
\* even), for the numerals the model feeds it: at most 16 digits (below 2^54,
\* where the doubles are the even integers) or at least 310 digits (above the
\* largest double, 1.797...e308).
ToDouble(neg, d) ==
  CASE DigitsLeq(d, TwoPow53) -> IntNumber(neg, d)
    [] ~DigitsLeq(d, TwoPow53) /\ Len(d) <= 16 ->
         LET n == Len(d)
             low == (10 * DigitVal(d[n - 1]) + DigitVal(d[n])) % 4
         IN IF low % 2 = 0 THEN IntNumber(neg, d)
            ELSE IF low = 1
              THEN IntNumber(neg, SubSeq(d, 1, n - 1) \o <<DigitChars[DigitVal(d[n])]>>)
              ELSE IntNumber(neg, IncDigits(d))
    [] Len(d) >= 310 -> [Infinity EXCEPT !.neg = neg]

\* The longest prefix of s made of decimal digits
DigitPrefix(s) ==
  LET n == CHOOSE k \in 0..Len(s) :
             /\ \A i \in 1..k : s[i] \in Digits
             /\ k < Len(s) => s[k + 1] \notin Digits
  IN SubSeq(s, 1, n)

\* Number.parseInt(string, 10): skip leading white space, take an optional
\* sign, then the longest prefix of decimal digits; NaN when there is none.
NumberParseInt(s) ==
  LET S == TrimStart(s)
      neg == S # <<>> /\ Head(S) = "-"
      T == IF S # <<>> /\ Head(S) \in {"+", "-"} THEN Tail(S) ELSE S
      Z == DigitPrefix(T)
  IN IF Z = <<>> THEN NaN ELSE ToDouble(neg, StripZeros(Z))

NumberIsFinite(x) == x.kind = "int"

\* x > 0 (false for NaN, +0 and -0)
GreaterThanZero(x) ==
  \/ x.kind = "Infinity" /\ ~x.neg
  \/ x.kind = "int" /\ ~x.neg /\ x.digits # <<"0">>

(***************************************************************************)
(* class Env                                                               *)
(***************************************************************************)

Keys == {"NODE_ENV", "SKIP_AUTH", "CORS_ORIGIN", "PORT"}

DefaultPort == 5001

DefaultOrigin ==
  <<"h", "t", "t", "p", ":", "/", "/", "l", "o", "c", "a", "l", "h", "o", "s", "t",
    ":", "3", "0", "0", "0">>

\* type CorsOrigin = '*' | string[]
Wildcard == [kind |-> "wildcard", items |-> <<>>]

OriginList(items) == [kind |-> "list", items |-> items]

\* Calling a method (value.trim(), raw.split(',')) on undefined raises a
\* TypeError
MethodCallRaises(value) == ~value.defined

\* Mutant: value.trim() is called without the test for undefined
Env_parseBoolean_raises_Unguarded(value, fallback) == MethodCallRaises(value)

\* Whether parseBoolean raises an error: value.trim() is reached only past the
\* test for undefined
Env_parseBoolean_raises(value, fallback) ==
  IF ~value.defined THEN FALSE ELSE MethodCallRaises(value)

\* Whether parseInt raises an error: value.trim() is reached only when value
\* is not undefined, and Number.parseInt accepts every string
Env_parseInt_raises(value, fallback) ==
  IF ~value.defined THEN FALSE ELSE MethodCallRaises(value)

\* Mutant: the comparison with 'true' is case-sensitive
Env_parseBoolean_CaseSensitive(value, fallback) ==
  IF ~value.defined THEN fallback
  ELSE StringTrim(value.str) = <<"t", "r", "u", "e">>

Env_parseBoolean(value, fallback) ==
  IF ~value.defined THEN fallback
  ELSE StringToLowerCase(StringTrim(value.str)) = <<"t", "r", "u", "e">>

\* Mutant: the parsed number is not required to be positive
Env_parseInt_NoSignCheck(value, fallback) ==
  IF ~value.defined \/ StringTrim(value.str) = <<>> THEN fallback
  ELSE LET parsed == NumberParseInt(value.str)
       IN IF NumberIsFinite(parsed) THEN parsed ELSE fallback

Env_parseInt(value, fallback) ==
  IF ~value.defined \/ StringTrim(value.str) = <<>> THEN fallback
  ELSE LET parsed == NumberParseInt(value.str)
       IN IF NumberIsFinite(parsed) /\ GreaterThanZero(parsed) THEN parsed
          ELSE fallback

\* Mutant: NODE_ENV is trimmed before it is returned
Env_nodeEnv_Trimmed(e) ==
  IF e["NODE_ENV"].defined THEN Str(StringTrim(e["NODE_ENV"].str))
  ELSE Undefined

Env_nodeEnv(e) == e["NODE_ENV"]

\* Reading a property of process.env raises nothing
Env_nodeEnv_raises(e) == FALSE

\* Mutant: SKIP_AUTH counts in development only
Env_skipAuth_DevOnly(e) ==
  Env_parseBoolean(e["SKIP_AUTH"], FALSE) /\ e["NODE_ENV"] = Str(<<"d", "e", "v">>)

Env_skipAuth(e) == Env_parseBoolean(e["SKIP_AUTH"], FALSE)

Env_skipAuth_raises(e) == Env_parseBoolean_raises(e["SKIP_AUTH"], FALSE)

\* Whether corsOrigin raises an error: raw.trim() and raw.split(',') are
\* reached only when raw is truthy
Env_corsOrigin_raises(e) ==
  LET raw == e["CORS_ORIGIN"]
  IN IF ~raw.defined \/ raw.str = <<>> THEN FALSE ELSE MethodCallRaises(raw)

\* Mutant: the wildcard is recognised only without surrounding white space
Env_corsOrigin_NoTrim(e) ==
  LET raw == e["CORS_ORIGIN"]
  IN IF ~raw.defined \/ raw.str = <<>> THEN OriginList(<<DefaultOrigin>>)
     ELSE IF raw.str = <<"*">> THEN Wildcard
     ELSE LET items == FilterNonEmpty(MapTrim(StringSplit(raw.str)))
          IN IF Len(items) > 0 THEN OriginList(items)
             ELSE OriginList(<<DefaultOrigin>>)

\* Mutant: an empty list of items is returned as it is
Env_corsOrigin_NoFallback(e) ==
  LET raw == e["CORS_ORIGIN"]
  IN IF ~raw.defined \/ raw.str = <<>> THEN OriginList(<<DefaultOrigin>>)
     ELSE IF StringTrim(raw.str) = <<"*">> THEN Wildcard
     ELSE OriginList(FilterNonEmpty(MapTrim(StringSplit(raw.str))))

\* Mutant: an unset or empty CORS_ORIGIN allows every origin
Env_corsOrigin_DefaultWildcard(e) ==
  LET raw == e["CORS_ORIGIN"]
  IN IF ~raw.defined \/ raw.str = <<>> THEN Wildcard
     ELSE IF StringTrim(raw.str) = <<"*">> THEN Wildcard
     ELSE LET items == FilterNonEmpty(MapTrim(StringSplit(raw.str)))
          IN IF Len(items) > 0 THEN OriginList(items)
             ELSE OriginList(<<DefaultOrigin>>)

Env_corsOrigin(e) ==
  LET raw == e["CORS_ORIGIN"]
  IN IF ~raw.defined \/ raw.str = <<>> THEN OriginList(<<DefaultOrigin>>)
     ELSE IF StringTrim(raw.str) = <<"*">> THEN Wildcard
     ELSE LET items == FilterNonEmpty(MapTrim(StringSplit(raw.str)))
          IN IF Len(items) > 0 THEN OriginList(items)
             ELSE OriginList(<<DefaultOrigin>>)

\* Mutant: the port is computed on the first read and kept
Env_port_Cached(e) ==
  IF ret.acc = "port" THEN ret.val
  ELSE Env_parseInt(e["PORT"], Num(DefaultPort))

\* Mutant: the port is clamped to the largest TCP port
Env_port_Clamped(e) ==
  LET port == Env_parseInt(e["PORT"], Num(DefaultPort))
  IN IF DigitsLeq(port.digits, NatDigits(65535)) THEN port ELSE Num(65535)

Env_port(e) == Env_parseInt(e["PORT"], Num(DefaultPort))

Env_port_raises(e) == Env_parseInt_raises(e["PORT"], Num(DefaultPort))

(***************************************************************************)
(* The environments the accessors are run on                               *)
(***************************************************************************)

MaxPortLen == 3

MaxOriginLen == 3

MaxPad == 1

StringsUpTo(alphabet, n) == UNION {[1..k -> alphabet] : k \in 0..n}

PortAlphabet == {"0", "1", "-", " ", "a", "."}

\* 2^53 - 1 ... 2^53 + 3, a signed numeral, and 10^309 (which is no double)
LongPorts ==
  {SubSeq(TwoPow53, 1, 15) \o <<c>> : c \in {"1", "2", "3", "4", "5"}}
    \cup {<<"+", "1", "0">>, <<"0", "8", "0", "8", "0">>}
    \cup {[i \in 1..310 |-> IF i = 1 THEN "1" ELSE "0"]}

PortInputs == StringsUpTo(PortAlphabet, MaxPortLen) \cup LongPorts

OriginAlphabet == {"a", "b", ",", "*", " "}

OriginInputs ==
  StringsUpTo(OriginAlphabet, MaxOriginLen)
    \cup {<<" ", "a", " ", ",", " ", ",", "b", " ">>, <<"\t", "*", "\n">>}

Pads == StringsUpTo({" ", "\t"}, MaxPad)

BoolWords ==
  {<<t, r, u, e>> : t \in {"t", "T"}, r \in {"r", "R"}, u \in {"u", "U"},
                    e \in {"e", "E"}}
    \cup {<<>>, <<"1">>, <<"0">>, <<"f", "a", "l", "s", "e">>, <<"t", "r", "u">>,
          <<"t", "r", "u", "e", "e">>, <<"t", "r", " ", "u", "e">>,
          <<"y", "e", "s">>, <<"r", "u", "e">>}

SkipAuthInputs == {l \o w \o r : l \in Pads, w \in BoolWords, r \in Pads}

NodeEnvInputs ==
  {<<>>, <<"d", "e", "v">>, <<"D", "E", "V">>, <<" ", "d", "e", "v", " ">>,
   <<"p", "r", "o", "d">>, <<"t", "e", "s", "t">>,
   <<"p", "r", "o", "d", "u", "c", "t", "i", "o", "n">>}

Inputs(k) ==
  CASE k = "NODE_ENV" -> NodeEnvInputs
    [] k = "SKIP_AUTH" -> SkipAuthInputs
    [] k = "CORS_ORIGIN" -> OriginInputs
    [] k = "PORT" -> PortInputs

\* The values the other variables take while one variable ranges over Inputs
SmallValues ==
  [NODE_ENV |-> {Undefined, Str(<<"d", "e", "v">>)},
   SKIP_AUTH |-> {Undefined, Str(<<"t", "r", "u", "e">>)},
   CORS_ORIGIN |-> {Undefined, Str(<<"*">>)},
   PORT |-> {Undefined, Str(<<"8", "0">>)}]

SmallEnvs ==
  [NODE_ENV : SmallValues.NODE_ENV, SKIP_AUTH : SmallValues.SKIP_AUTH,
   CORS_ORIGIN : SmallValues.CORS_ORIGIN, PORT : SmallValues.PORT]

\* Whether the module-level code of env.config.ts has run, and the path it
\* gave to dotenv's config (undefined: config was not called)
NotLoaded == [ran |-> FALSE, path |-> Undefined]

\* `.env.${Env.nodeEnv}`
EnvFilePath(nodeEnv) == Str(<<".", "e", "n", "v", ".">> \o nodeEnv.str)

\* An access with the environment it was made in
NoRead ==
  [acc |-> "none", env |-> [k \in Keys |-> Undefined],
   val |-> Undefined, threw |-> FALSE]

\* The first access made and the last
NoReads == [first |-> NoRead, last |-> NoRead]

NoAccess == [acc |-> "none", arg |-> Undefined, val |-> Undefined, threw |-> FALSE]

\* What reading an accessor leaves: the value the getter returned, or that it
\* raised an error instead of returning
Completion(acc, arg, raises, val) ==
  [acc |-> acc, arg |-> arg, val |-> IF raises THEN Undefined ELSE val,
   threw |-> raises]

(***************************************************************************)
(* Bootstrap state of main.ts (detailed below)                             *)
(***************************************************************************)

MaxRequests == 2

\* The createNestApplication call made when the module is loaded, and the ones
\* made by the invocations of the Firebase handler
Load == <<"load", 0>>

Requests == {<<"request", i>> : i \in 1..MaxRequests}

Calls == {Load} \cup Requests

\* let cachedApp: INestApplication | null = null
NoApp == <<"null", 0>>

\* The instance NestFactory.create builds for call p: every call of
\* NestFactory.create returns a new instance
NewApp(p) == p

InitBootVars ==
  /\ cachedApp = NoApp
  /\ pc = [p \in Calls |-> "idle"]
  /\ app = [p \in Calls |-> NoApp]
  /\ result = [p \in Calls |-> NoApp]
  /\ created = 0
  /\ listening = [on |-> FALSE, port |-> NaN]

(***************************************************************************)
(* class Utils: values, the heap, isObject and trim                        *)
(*                                                                         *)
(* A value is a record [t, s, a]: a string, number, boolean, null or       *)
(* undefined (s holds its text), or a reference (a is an address of the    *)
(* heap).  The heap is a sequence of containers [t, proto, keys, items]:   *)
(* an array holds its elements in items, an object its own enumerable keys *)
(* and their values in keys and items, in insertion order; proto is the    *)
(* container's prototype.  A new container is appended to the heap.        *)
(***************************************************************************)

VString(s) == [t |-> "string", s |-> s, a |-> 0]

VNumber(s) == [t |-> "number", s |-> s, a |-> 0]

VBoolean(s) == [t |-> "boolean", s |-> s, a |-> 0]

VNull == [t |-> "null", s |-> <<>>, a |-> 0]

VUndefined == [t |-> "undefined", s |-> <<>>, a |-> 0]

VRef(a) == [t |-> "ref", s |-> <<>>, a |-> a]

\* typeof value
TypeOf(value) == IF value.t \in {"null", "ref"} THEN "object" ELSE value.t

\* Array.prototype and Object.prototype, the prototypes of [] and {}
BuiltinProto == [t |-> "builtin", s |-> <<>>, a |-> 0]

NewArray == [t |-> "array", proto |-> BuiltinProto, keys |-> <<>>, items |-> <<>>]

NewObject == [t |-> "object", proto |-> BuiltinProto, keys |-> <<>>, items |-> <<>>]

\* The key whose assignment runs the setter inherited from Object.prototype
ProtoKey == <<"_", "_", "p", "r", "o", "t", "o", "_", "_">>

IndexOf(keys, key) == CHOOSE i \in 1..Len(keys) : keys[i] = key

\* obj[key] = v on an object created by {}
ObjectSet(obj, key, v) ==
  IF key = ProtoKey /\ obj.proto # VNull
    THEN IF TypeOf(v) = "object" THEN [obj EXCEPT !.proto = v] ELSE obj
  ELSE IF \E i \in 1..Len(obj.keys) : obj.keys[i] = key
    THEN [obj EXCEPT !.items[IndexOf(obj.keys, key)] = v]
  ELSE [obj EXCEPT !.keys = Append(@, key), !.items = Append(@, v)]

RECURSIVE ObjectSetAll(_, _, _)

\* trimmed[key] = val for the entries from first to last
ObjectSetAll(obj, keys, items) ==
  IF keys = <<>> THEN obj
  ELSE ObjectSetAll(ObjectSet(obj, Head(keys), Head(items)), Tail(keys), Tail(items))

ArrayIsArray(h, value) == value.t = "ref" /\ h[value.a].t = "array"

\* Object.keys(value).length
KeyCount(h, value) == IF value.t = "ref" THEN Len(h[value.a].items) ELSE 0

\* isObject called without params: acceptNull and acceptArray are false,
\* acceptEmpty is true
NoParams == [acceptNull |-> FALSE, acceptArray |-> FALSE, acceptEmpty |-> TRUE]

\* Mutant: null is accepted as an object
Utils_isObject_AcceptsNull(h, value, params) ==
  IF TypeOf(value) # "object" THEN FALSE
  ELSE IF ~params.acceptArray /\ ArrayIsArray(h, value) THEN FALSE
  ELSE IF ~params.acceptEmpty /\ KeyCount(h, value) = 0 THEN FALSE
  ELSE TRUE

Utils_isObject(h, value, params) ==
  IF TypeOf(value) # "object" THEN FALSE
  ELSE IF ~params.acceptNull /\ value.t = "null" THEN FALSE
  ELSE IF ~params.acceptArray /\ ArrayIsArray(h, value) THEN FALSE
  ELSE IF ~params.acceptEmpty /\ KeyCount(h, value) = 0 THEN FALSE
  ELSE TRUE

\* The result of a call: the heap it leaves, the value it returns, and whether
\* it raised an error instead of returning
Returned(h, v) == [h |-> h, v |-> v, threw |-> FALSE]

Raised(h) == [h |-> h, v |-> VUndefined, threw |-> TRUE]

RECURSIVE Utils_trim(_, _), TrimEach(_, _)

\* item => this.trim(item), applied to the items from left to right
TrimEach(h, items) ==
  IF items = <<>> THEN [h |-> h, items |-> <<>>, threw |-> FALSE]
  ELSE LET first == Utils_trim(h, Head(items))
           rest == TrimEach(first.h, Tail(items))
       IN IF first.threw THEN [h |-> first.h, items |-> <<>>, threw |-> TRUE]
          ELSE [h |-> rest.h, items |-> <<first.v>> \o rest.items,
                threw |-> rest.threw]

\* Mutant: an array is trimmed in place and returned itself
Utils_trim_InPlace(h, value) ==
  IF TypeOf(value) = "string" THEN Returned(h, VString(StringTrim(value.s)))
  ELSE IF ArrayIsArray(h, value)
    THEN LET each == TrimEach(h, h[value.a].items)
         IN IF each.threw THEN Raised(each.h)
            ELSE Returned([each.h EXCEPT ![value.a].items = each.items], value)
  ELSE IF Utils_isObject(h, value, NoParams)
    THEN IF value.t # "ref" THEN Raised(h)
         ELSE LET n == Len(h) + 1
                  each == TrimEach(Append(h, NewObject), h[value.a].items)
              IN IF each.threw THEN Raised(each.h)
                 ELSE Returned([each.h EXCEPT ![n] =
                                  ObjectSetAll(@, h[value.a].keys, each.items)],
                               VRef(n))
  ELSE Returned(h, value)

Utils_trim(h, value) ==
  IF TypeOf(value) = "string" THEN Returned(h, VString(StringTrim(value.s)))
  ELSE IF ArrayIsArray(h, value)
    THEN LET n == Len(h) + 1
             each == TrimEach(Append(h, NewArray), h[value.a].items)
         IN IF each.threw THEN Raised(each.h)
            ELSE Returned([each.h EXCEPT ![n].items = each.items], VRef(n))
  ELSE IF Utils_isObject(h, value, NoParams)
    THEN IF value.t # "ref" THEN Raised(h)
         ELSE LET n == Len(h) + 1
                  each == TrimEach(Append(h, NewObject), h[value.a].items)
              IN IF each.threw THEN Raised(each.h)
                 ELSE Returned([each.h EXCEPT ![n] =
                                  ObjectSetAll(@, h[value.a].keys, each.items)],
                               VRef(n))
  ELSE Returned(h, value)

(***************************************************************************)
(* The values Utils.trim is run on                                         *)
(*                                                                         *)
(* A nested value is written as a tree [t, s, keys, kids]; Build puts it   *)
(* on the heap, as JSON.parse does: every key of a parsed object is an own *)
(* property, "__proto__" included.                                         *)
(***************************************************************************)

MaxNodes == 3

Leaf(t, s) == [t |-> t, s |-> s, keys |-> <<>>, kids |-> <<>>]

ArrayOf(kids) == [t |-> "array", s |-> <<>>, keys |-> <<>>, kids |-> kids]

ObjectOf(keys, kids) == [t |-> "object", s |-> <<>>, keys |-> keys, kids |-> kids]

Leaves ==
  { Leaf("string", <<" ", "\t", "a", " ", "b", "\n">>), Leaf("string", <<" ", "\n">>),
    Leaf("number", <<"3", "0">>), Leaf("boolean", <<"t", "r", "u", "e">>),
    Leaf("null", <<>>), Leaf("undefined", <<>>) }

KeyLists ==
  { <<<<"a">>>>, <<<<" ", "b">>>>, <<ProtoKey>>,
    <<<<"a">>, <<" ", "b">>>>, <<<<"a">>, ProtoKey>> }

RECURSIVE TreesOfSize(_), ForestsOfSize(_)

\* The sequences of trees that have n nodes in all
ForestsOfSize(n) ==
  IF n = 0 THEN {<<>>}
  ELSE UNION { { <<t>> \o f : t \in TreesOfSize(k), f \in ForestsOfSize(n - k) }
               : k \in 1..n }

\* The trees that have n nodes
TreesOfSize(n) ==
  IF n = 1 THEN Leaves \cup {ArrayOf(<<>>), ObjectOf(<<>>, <<>>)}
  ELSE { ArrayOf(f) : f \in ForestsOfSize(n - 1) }
       \cup UNION { { ObjectOf(ks, f) :
                       f \in {g \in ForestsOfSize(n - 1) : Len(g) = Len(ks)} }
                     : ks \in KeyLists }

TrimInputs == UNION { TreesOfSize(n) : n \in 1..MaxNodes }

RECURSIVE Build(_, _), BuildEach(_, _)

BuildEach(h, kids) ==
  IF kids = <<>> THEN [h |-> h, items |-> <<>>]
  ELSE LET first == Build(h, Head(kids))
           rest == BuildEach(first.h, Tail(kids))
       IN [h |-> rest.h, items |-> <<first.v>> \o rest.items]

Build(h, tree) ==
  IF tree.t \in {"array", "object"}
    THEN LET each == BuildEach(h, tree.kids)
         IN [h |-> Append(each.h, [t |-> tree.t, proto |-> BuiltinProto,
                                   keys |-> tree.keys, items |-> each.items]),
             v |-> VRef(Len(each.h) + 1)]
  ELSE [h |-> h, v |-> [t |-> tree.t, s |-> tree.s, a |-> 0]]

InitTrimVars ==
  /\ heap = <<>>
  /\ heap0 = <<>>
  /\ tin = VUndefined
  /\ touts = <<>>
  /\ tthrew = FALSE

(***************************************************************************)
(* main.ts: the middlewares of expressApp and a request                    *)
(*                                                                         *)
(* stack is the list of layers registered on expressApp, in the order of   *)
(* the calls that registered them.  req is the request, body is req.body,  *)
(* pos the layer the request is at (0 before expressApp(req, res)), passed *)
(* the layers that ran on it, outcome how it ended and seen the body the   *)
(* route handler received.                                                 *)
(***************************************************************************)

MaxBodyNodes == 2

\* The layers registered when main.ts is loaded
Middlewares_TrimmerFirst == <<"trimmer", "cors", "json", "urlencoded">>

Middlewares == <<"cors", "json", "urlencoded", "trimmer">>

\* body-parser accepts arrays and objects
BodyInputs ==
  { t \in UNION { TreesOfSize(n) : n \in 1..MaxBodyNodes } : t.t \in {"array", "object"} }

\* The falsy bodies a request can carry when it is handed to expressApp
PresetBodies ==
  {VNull, VString(<<>>), VNumber(<<"0">>), VBoolean(<<"f", "a", "l", "s", "e">>)}

\* A request has a payload for the parsers of expressApp, or carries the
\* body that the caller of expressApp has set
RequestInputs ==
  [method : {"POST", "OPTIONS"}, ctype : {"json", "urlencoded", "none"},
   malformed : BOOLEAN, payload : BodyInputs, preset : {VUndefined}]
  \cup [method : {"POST", "OPTIONS"}, ctype : {"none"}, malformed : {FALSE},
        payload : {ArrayOf(<<>>)}, preset : PresetBodies]

NoRequest ==
  [method |-> "POST", ctype |-> "none", malformed |-> FALSE,
   payload |-> ArrayOf(<<>>), preset |-> VUndefined]

\* if (req.body)
Truthy(v) ==
  CASE v.t = "ref" -> TRUE
    [] v.t \in {"string", "number"} -> v.s \notin {<<>>, <<"0">>}
    [] v.t = "boolean" -> v.s = <<"t", "r", "u", "e">>
    [] OTHER -> FALSE

InitReqVars ==
  /\ stack = Middlewares
  /\ req = NoRequest
  /\ body = VUndefined
  /\ pos = 0
  /\ passed = <<>>
  /\ outcome = "none"
  /\ seen = VUndefined
  /\ nexts = 0

(***************************************************************************)
(* Accessing Env under a changing process.env                              *)
(***************************************************************************)

Init ==
  /\ \E r \in SmallEnvs, k \in Keys :
       \E v \in {Undefined} \cup {Str(s) : s \in Inputs(k)} :
         env = [r EXCEPT ![k] = v]
  /\ ret = NoAccess
  /\ refreshed = FALSE
  /\ reads = NoReads
  /\ dotenv = NotLoaded
  /\ InitBootVars
  /\ InitTrimVars
  /\ InitReqVars

\* refreshed records that the accessor read now was read before and that its
\* variable has changed since that read.
GetNodeEnv ==
  /\ ret' = Completion("nodeEnv", env["NODE_ENV"], Env_nodeEnv_raises(env),
                       Env_nodeEnv(env))
  /\ refreshed' = (ret.acc = "nodeEnv" /\ ret.arg # env["NODE_ENV"])
  /\ UNCHANGED <<env, reads, dotenv, bootVars, trimVars, reqVars>>

GetSkipAuth ==
  /\ ret' = Completion("skipAuth", env["SKIP_AUTH"], Env_skipAuth_raises(env),
                       Env_skipAuth(env))
  /\ refreshed' = (ret.acc = "skipAuth" /\ ret.arg # env["SKIP_AUTH"])
  /\ UNCHANGED <<env, reads, dotenv, bootVars, trimVars, reqVars>>

GetCorsOrigin ==
  /\ ret' = Completion("corsOrigin", env["CORS_ORIGIN"],
                       Env_corsOrigin_raises(env), Env_corsOrigin(env))
  /\ refreshed' = (ret.acc = "corsOrigin" /\ ret.arg # env["CORS_ORIGIN"])
  /\ UNCHANGED <<env, reads, dotenv, bootVars, trimVars, reqVars>>

GetPort ==
  /\ ret' = Completion("port", env["PORT"], Env_port_raises(env), Env_port(env))
  /\ refreshed' = (ret.acc = "port" /\ ret.arg # env["PORT"])
  /\ UNCHANGED <<env, reads, dotenv, bootVars, trimVars, reqVars>>

\* process.env.K = v, or delete process.env.K
SetEnv ==
  /\ \E k \in Keys :
       \E v \in SmallValues[k] \ {env[k]} : env' = [env EXCEPT ![k] = v]
  /\ UNCHANGED <<ret, refreshed, reads, dotenv, bootVars, trimVars, reqVars>>

Next == GetNodeEnv \/ GetSkipAuth \/ GetCorsOrigin \/ GetPort \/ SetEnv

Spec == Init /\ [][Next]_vars

(***************************************************************************)
(* Loading env.config.ts: the module-level call of dotenv's config         *)
(*                                                                         *)
(* config({ path }) reads the file at path and sets the variables of the   *)
(* file that process.env does not have; file is what the file sets (a      *)
(* missing file sets nothing).                                             *)
(***************************************************************************)

InitDotenv ==
  /\ \E r \in SmallEnvs :
       \E v \in {Undefined} \cup {Str(n) : n \in NodeEnvInputs} :
         env = [r EXCEPT !["NODE_ENV"] = v]
  /\ ret = NoAccess
  /\ refreshed = FALSE
  /\ reads = NoReads
  /\ dotenv = NotLoaded
  /\ InitBootVars
  /\ InitTrimVars
  /\ InitReqVars

\* if (Env.nodeEnv) config({ path: `.env.${Env.nodeEnv}` })
LoadEnvFile ==
  /\ ~dotenv.ran
  /\ IF Env_nodeEnv(env).defined /\ Env_nodeEnv(env).str # <<>>
       THEN /\ dotenv' = [ran |-> TRUE, path |-> EnvFilePath(Env_nodeEnv(env))]
            /\ \E file \in SmallEnvs :
                 env' = [k \in Keys |-> IF env[k].defined THEN env[k] ELSE file[k]]
       ELSE /\ dotenv' = [ran |-> TRUE, path |-> Undefined]
            /\ env' = env
  /\ UNCHANGED <<ret, refreshed, reads, bootVars, trimVars, reqVars>>

NextDotenv == LoadEnvFile

SpecDotenv == InitDotenv /\ [][NextDotenv]_vars

(***************************************************************************)
(* The accessors called in any order while process.env changes; reads      *)
(* keeps the first access and the last, each with its environment          *)
(***************************************************************************)

InitOrder ==
  /\ env \in SmallEnvs
  /\ ret = NoAccess
  /\ refreshed = FALSE
  /\ reads = NoReads
  /\ dotenv = NotLoaded
  /\ InitBootVars
  /\ InitTrimVars
  /\ InitReqVars

Access(acc, key, raises, val) ==
  /\ ret' = Completion(acc, env[key], raises, val)
  /\ refreshed' = (ret.acc = acc /\ ret.arg # env[key])
  /\ LET read == [acc |-> acc, env |-> env, val |-> ret'.val, threw |-> ret'.threw]
     IN reads' = [first |-> IF reads.first.acc = "none" THEN read ELSE reads.first,
                  last |-> read]
  /\ UNCHANGED <<env, dotenv, bootVars, trimVars, reqVars>>

AccessNodeEnv == Access("nodeEnv", "NODE_ENV", Env_nodeEnv_raises(env), Env_nodeEnv(env))

AccessSkipAuth ==
  Access("skipAuth", "SKIP_AUTH", Env_skipAuth_raises(env), Env_skipAuth(env))

AccessCorsOrigin ==
  Access("corsOrigin", "CORS_ORIGIN", Env_corsOrigin_raises(env), Env_corsOrigin(env))

AccessPort == Access("port", "PORT", Env_port_raises(env), Env_port(env))

NextOrder ==
  AccessNodeEnv \/ AccessSkipAuth \/ AccessCorsOrigin \/ AccessPort \/ SetEnv

SpecOrder == InitOrder /\ [][NextOrder]_vars

(***************************************************************************)
(* main.ts: module load, createNestApplication, the Firebase handler       *)
(*                                                                         *)
(* JavaScript runs each call to completion up to its next await, so one    *)
(* action is the code between two awaits.  pc[p] is where call p stands:   *)
(*   idle         not started                                              *)
(*   awaitCreate  awaiting NestFactory.create(...)                         *)
(*   awaitInit    awaiting app.init()                                      *)
(*   resolved     createNestApplication returned result[p]                *)
(*   rejected     createNestApplication threw                              *)
(*   done         the caller's continuation ran (listen / expressApp)      *)
(***************************************************************************)

InitBoot ==
  /\ env \in SmallEnvs
  /\ ret = NoAccess
  /\ refreshed = FALSE
  /\ reads = NoReads
  /\ dotenv = NotLoaded
  /\ InitBootVars
  /\ InitTrimVars
  /\ InitReqVars

\* Mutant: the cached instance is not looked at
createNestApplication_NoCache(p) ==
  /\ created' = created + 1
  /\ pc' = [pc EXCEPT ![p] = "awaitCreate"]
  /\ UNCHANGED <<cachedApp, app, result>>

\* createNestApplication() up to its first await (lines 45-62)
createNestApplication(p) ==
  IF cachedApp # NoApp
  THEN /\ result' = [result EXCEPT ![p] = cachedApp]
       /\ pc' = [pc EXCEPT ![p] = "resolved"]
       /\ UNCHANGED <<cachedApp, app, created>>
  ELSE /\ created' = created + 1
       /\ pc' = [pc EXCEPT ![p] = "awaitCreate"]
       /\ UNCHANGED <<cachedApp, app, result>>

\* Loading the module: the top-level createNestApplication() call
LoadModule ==
  /\ pc[Load] = "idle"
  /\ createNestApplication(Load)
  /\ UNCHANGED <<envVars, trimVars, reqVars, listening>>

\* Firebase invokes the exported handler: await createNestApplication()
Invoke(p) ==
  /\ pc[Load] # "idle"
  /\ pc[p] = "idle"
  /\ createNestApplication(p)
  /\ UNCHANGED <<envVars, trimVars, reqVars, listening>>

\* Mutant: the instance is cached before app.init() is awaited
CreateResolves_CachesEarly(p) ==
  /\ pc[p] = "awaitCreate"
  /\ app' = [app EXCEPT ![p] = NewApp(p)]
  /\ cachedApp' = NewApp(p)
  /\ pc' = [pc EXCEPT ![p] = "awaitInit"]
  /\ UNCHANGED <<envVars, trimVars, reqVars, result, created, listening>>

\* NestFactory.create resolves: app.enableCors(...), then app.init() is awaited
CreateResolves(p) ==
  /\ pc[p] = "awaitCreate"
  /\ app' = [app EXCEPT ![p] = NewApp(p)]
  /\ pc' = [pc EXCEPT ![p] = "awaitInit"]
  /\ UNCHANGED <<envVars, trimVars, reqVars, cachedApp, result, created, listening>>

\* NestFactory.create rejects: createNestApplication throws
CreateRejects(p) ==
  /\ pc[p] = "awaitCreate"
  /\ pc' = [pc EXCEPT ![p] = "rejected"]
  /\ UNCHANGED <<envVars, trimVars, reqVars, cachedApp, app, result, created, listening>>

\* app.init() resolves: cachedApp = app; return app
InitResolves(p) ==
  /\ pc[p] = "awaitInit"
  /\ cachedApp' = app[p]
  /\ result' = [result EXCEPT ![p] = app[p]]
  /\ pc' = [pc EXCEPT ![p] = "resolved"]
  /\ UNCHANGED <<envVars, trimVars, reqVars, app, created, listening>>

\* app.init() rejects: createNestApplication throws
InitRejects(p) ==
  /\ pc[p] = "awaitInit"
  /\ pc' = [pc EXCEPT ![p] = "rejected"]
  /\ UNCHANGED <<envVars, trimVars, reqVars, cachedApp, app, result, created, listening>>

\* Mutant: listen is called without waiting for createNestApplication()
Listen_Eager ==
  /\ pc[Load] # "idle"
  /\ ~listening.on
  /\ listening' = [on |-> TRUE, port |-> Env_port(env)]
  /\ UNCHANGED <<envVars, trimVars, reqVars, cachedApp, pc, app, result, created>>

\* .then(() => { const port = Env.port; expressApp.listen(port, ...) })
Listen ==
  /\ pc[Load] = "resolved"
  /\ listening' = [on |-> TRUE, port |-> Env_port(env)]
  /\ pc' = [pc EXCEPT ![Load] = "done"]
  /\ UNCHANGED <<envVars, trimVars, reqVars, cachedApp, app, result, created>>

\* Mutant: the handler does not await createNestApplication()
Dispatch_NoAwait(p) ==
  /\ pc[p] \in {"awaitCreate", "awaitInit", "resolved"}
  /\ pc' = [pc EXCEPT ![p] = "done"]
  /\ UNCHANGED <<envVars, trimVars, reqVars, cachedApp, app, result, created, listening>>

\* expressApp(req, res) after the handler's await
Dispatch(p) ==
  /\ pc[p] = "resolved"
  /\ pc' = [pc EXCEPT ![p] = "done"]
  /\ UNCHANGED <<envVars, trimVars, reqVars, cachedApp, app, result, created, listening>>

NextBoot ==
  \/ LoadModule
  \/ Listen
  \/ \E p \in Requests : Invoke(p)
  \/ \E p \in Requests : Dispatch(p)
  \/ \E p \in Calls : CreateResolves(p)
  \/ \E p \in Calls : CreateRejects(p)
  \/ \E p \in Calls : InitResolves(p)
  \/ \E p \in Calls : InitRejects(p)

SpecBoot == InitBoot /\ [][NextBoot]_vars

\* C1: framework construction happens at most once per process: over every
\* interleaving of createNestApplication calls, NestFactory.create is executed
\* at most once and every call returns the same instance.
ConstructedAtMostOnce ==
  /\ created <= 1
  /\ \A p, q \in Calls :
       pc[p] \in {"resolved", "done"} /\ pc[q] \in {"resolved", "done"}
         => result[p] = result[q]

(***************************************************************************)
(* Utils.trim applied to a value, and again to what it returned            *)
(*                                                                         *)
(* heap0 is the heap before the first call, tin the argument of the first  *)
(* call, touts the values returned so far, tthrew whether a call raised.   *)
(***************************************************************************)

InitTrim ==
  /\ env = [k \in Keys |-> Undefined]
  /\ ret = NoAccess
  /\ refreshed = FALSE
  /\ reads = NoReads
  /\ dotenv = NotLoaded
  /\ InitBootVars
  /\ InitReqVars
  /\ \E tree \in TrimInputs :
       LET built == Build(<<>>, tree)
       IN /\ heap = built.h
          /\ heap0 = built.h
          /\ tin = built.v
  /\ touts = <<>>
  /\ tthrew = FALSE

Trim ==
  /\ touts = <<>>
  /\ ~tthrew
  /\ LET r == Utils_trim(heap, tin)
     IN /\ heap' = r.h
        /\ tthrew' = r.threw
        /\ touts' = IF r.threw THEN touts ELSE <<r.v>>
  /\ UNCHANGED <<envVars, bootVars, reqVars, heap0, tin>>

TrimAgain ==
  /\ Len(touts) = 1
  /\ ~tthrew
  /\ LET r == Utils_trim(heap, touts[1])
     IN /\ heap' = r.h
        /\ tthrew' = r.threw
        /\ touts' = IF r.threw THEN touts ELSE Append(touts, r.v)
  /\ UNCHANGED <<envVars, bootVars, reqVars, heap0, tin>>

NextTrim == Trim \/ TrimAgain

SpecTrim == InitTrim /\ [][NextTrim]_vars

(***************************************************************************)
(* A request through expressApp                                            *)
(*                                                                         *)
(* app.enableCors and app.init add their layers after the four of the      *)
(* module; a layer runs when the one before it called next().              *)
(***************************************************************************)

InitExpress ==
  /\ env = [k \in Keys |-> Undefined]
  /\ ret = NoAccess
  /\ refreshed = FALSE
  /\ reads = NoReads
  /\ dotenv = NotLoaded
  /\ InitBootVars
  /\ InitTrimVars
  /\ stack = Middlewares
  /\ req \in RequestInputs
  /\ body = req.preset
  /\ pos = 0
  /\ passed = <<>>
  /\ outcome = "none"
  /\ seen = VUndefined
  /\ nexts = 0

Has(layer) == \E i \in 1..Len(stack) : stack[i] = layer

\* app.enableCors(...)
EnableCors ==
  /\ ~Has("enableCors")
  /\ stack' = Append(stack, "enableCors")
  /\ UNCHANGED <<envVars, bootVars, trimVars, req, body, pos, passed, outcome, seen, nexts>>

\* await app.init(): the routes of the controllers
RegisterRoutes ==
  /\ Has("enableCors")
  /\ ~Has("routes")
  /\ stack' = Append(stack, "routes")
  /\ UNCHANGED <<envVars, bootVars, trimVars, req, body, pos, passed, outcome, seen, nexts>>

\* expressApp(req, res)
Handle ==
  /\ pos = 0
  /\ pos' = 1
  /\ UNCHANGED <<envVars, bootVars, trimVars, stack, req, body, passed, outcome, seen, nexts>>

At_(layer) == outcome = "none" /\ pos \in 1..Len(stack) /\ stack[pos] = layer

Next_ == /\ pos' = pos + 1
         /\ passed' = Append(passed, stack[pos])

\* cors(...): answers a preflight request itself
RunCors ==
  /\ At_("cors") \/ At_("enableCors")
  /\ Next_
  /\ outcome' = IF req.method = "OPTIONS" THEN "preflight" ELSE outcome
  /\ UNCHANGED <<envVars, bootVars, trimVars, stack, req, body, seen, nexts>>

\* A body parser: parses the body of its content type, once
Parse(ctype) ==
  /\ Next_
  /\ IF req.ctype = ctype /\ body = VUndefined
       THEN IF req.malformed
              THEN /\ outcome' = "error"
                   /\ UNCHANGED <<heap, body>>
              ELSE LET built == Build(heap, req.payload)
                   IN /\ heap' = built.h
                      /\ body' = built.v
                      /\ UNCHANGED outcome
       ELSE UNCHANGED <<heap, body, outcome>>
  /\ UNCHANGED <<envVars, bootVars, heap0, tin, touts, tthrew, stack, req, seen, nexts>>

\* express.json()
RunJson == At_("json") /\ Parse("json")

\* express.urlencoded({ extended: true })
RunUrlencoded == At_("urlencoded") /\ Parse("urlencoded")

\* Mutant: next() is called inside the if
RunTrimmer_NextInsideIf ==
  /\ At_("trimmer")
  /\ passed' = Append(passed, "trimmer")
  /\ IF Truthy(body)
       THEN LET r == Utils_trim(heap, body)
            IN /\ heap' = r.h
               /\ body' = r.v
               /\ outcome' = IF r.threw THEN "error" ELSE outcome
               /\ pos' = pos + 1
               /\ nexts' = IF r.threw THEN nexts ELSE nexts + 1
       ELSE /\ outcome' = "stalled"
            /\ UNCHANGED <<heap, body, pos, nexts>>
  /\ UNCHANGED <<envVars, bootVars, heap0, tin, touts, tthrew, stack, req, seen>>

\* (req, _res, next) => { if (req.body) req.body = Utils.trim(req.body); next() }
\* nexts counts the calls of next() this middleware made
RunTrimmer ==
  /\ At_("trimmer")
  /\ passed' = Append(passed, "trimmer")
  /\ pos' = pos + 1
  /\ IF Truthy(body)
       THEN LET r == Utils_trim(heap, body)
            IN /\ heap' = r.h
               /\ body' = r.v
               /\ outcome' = IF r.threw THEN "error" ELSE outcome
               /\ nexts' = IF r.threw THEN nexts ELSE nexts + 1
       ELSE /\ nexts' = nexts + 1
            /\ UNCHANGED <<heap, body, outcome>>
  /\ UNCHANGED <<envVars, bootVars, heap0, tin, touts, tthrew, stack, req, seen>>

\* A route handler of the NestJS application receives the request
RunRoutes ==
  /\ At_("routes")
  /\ Next_
  /\ outcome' = "handled"
  /\ seen' = body
  /\ UNCHANGED <<envVars, bootVars, trimVars, stack, req, body, nexts>>

\* No layer is left
NotFound ==
  /\ outcome = "none"
  /\ pos = Len(stack) + 1
  /\ outcome' = "notfound"
  /\ UNCHANGED <<envVars, bootVars, trimVars, stack, req, body, pos, passed, seen, nexts>>

NextExpress ==
  \/ EnableCors
  \/ RegisterRoutes
  \/ Handle
  \/ RunCors
  \/ RunJson
  \/ RunUrlencoded
  \/ RunTrimmer
  \/ RunRoutes
  \/ NotFound

SpecExpress == InitExpress /\ [][NextExpress]_vars

(***************************************************************************)
(* What the claims say about strings, stated without the operators above   *)
(***************************************************************************)

IsBlank(s) == \A i \in 1..Len(s) : s[i] \in WhiteSpace

UnsignedPart(s) == IF s # <<>> /\ Head(s) \in {"+", "-"} THEN Tail(s) ELSE s

\* A base-10 integer string: an optional sign and one or more decimal digits
IntegerString(s) ==
  /\ UnsignedPart(s) # <<>>
  /\ \A i \in 1..Len(UnsignedPart(s)) : UnsignedPart(s)[i] \in Digits

IsZeroString(s) == \A i \in 1..Len(UnsignedPart(s)) : UnsignedPart(s)[i] = "0"

PositiveIntegerString(s) ==
  IntegerString(s) /\ Head(s) # "-" /\ ~IsZeroString(s)

NonPositiveIntegerString(s) ==
  IntegerString(s) /\ (Head(s) = "-" \/ IsZeroString(s))

\* An integer string with white space around it
PaddedIntegerString(s) ==
  \E i, j \in 1..Len(s) :
    /\ i <= j
    /\ IntegerString(SubSeq(s, i, j))
    /\ \A k \in 1..Len(s) : (k < i \/ k > j) => s[k] \in WhiteSpace

\* d is the numeral, without leading zeros, of the number the digits z write
Denotes(z, d) ==
  \E k \in 0..(Len(z) - 1) :
    /\ \A i \in 1..k : z[i] = "0"
    /\ d = SubSeq(z, k + 1, Len(z))
    /\ d[1] # "0" \/ Len(d) = 1

IsPositiveInteger(x) ==
  /\ x.kind = "int"
  /\ ~x.neg
  /\ Len(x.digits) > 0
  /\ \A i \in 1..Len(x.digits) : x.digits[i] \in Digits
  /\ x.digits[1] # "0"

\* s is "*" with nothing but white space around it
IsPaddedStar(s) ==
  \E i \in 1..Len(s) :
    s[i] = "*" /\ \A j \in 1..Len(s) : j # i => s[j] \in WhiteSpace

OnlyCommasAndBlanks(s) == \A i \in 1..Len(s) : s[i] \in WhiteSpace \cup {","}

\* The positions that bound the comma-separated segments of s
Cuts(s) == {0, Len(s) + 1} \cup {i \in 1..Len(s) : s[i] = ","}

NthCut(s, n) ==
  CHOOSE c \in Cuts(s) : Cardinality({d \in Cuts(s) : d < c}) = n - 1

\* What lies strictly between positions a and b of s, without the white space
\* around it
Core(s, a, b) ==
  LET inner == {i \in (a + 1)..(b - 1) : s[i] \notin WhiteSpace}
  IN IF inner = {} THEN <<>>
     ELSE SubSeq(s, CHOOSE i \in inner : \A j \in inner : i <= j,
                    CHOOSE i \in inner : \A j \in inner : i >= j)

IsOrigin(x) == x # <<>>

ExpectedOrigins(s) ==
  SelectSeq([n \in 1..(Cardinality(Cuts(s)) - 1) |->
               Core(s, NthCut(s, n), NthCut(s, n + 1))], IsOrigin)

\* s is the word true, in any letter case, with nothing but white space around it
IsPaddedTrue(s) ==
  \E i \in 1..(Len(s) - 3) :
    /\ s[i] \in {"t", "T"}
    /\ s[i + 1] \in {"r", "R"}
    /\ s[i + 2] \in {"u", "U"}
    /\ s[i + 3] \in {"e", "E"}
    /\ \A j \in 1..Len(s) : (j < i \/ j > i + 3) => s[j] \in WhiteSpace

(***************************************************************************)
(* Env.port                                                                *)
(***************************************************************************)

\* C2: for every state of PORT, Env.port returns a positive integer; when PORT
\* is unset, blank, zero or negative it returns exactly 5001.
PortIsPositiveInteger ==
  ret.acc = "port" =>
    /\ IsPositiveInteger(ret.val)
    /\ (\/ ~ret.arg.defined
        \/ IsBlank(ret.arg.str)
        \/ NonPositiveIntegerString(ret.arg.str)) => ret.val = Num(DefaultPort)

\* C2 witness: Env.port was read with PORT = "-1" and returned 5001
PortNegativeGivesDefault ==
  /\ ret.acc = "port"
  /\ ret.arg = Str(<<"-", "1">>)
  /\ ret.val = Num(DefaultPort)

\* C3 as stated: for every PORT that is an integer string n > 0, Env.port
\* returns n exactly, with no upper bound.
PortReturnsEveryPositiveInteger ==
  (ret.acc = "port" /\ ret.arg.defined /\ PositiveIntegerString(ret.arg.str)) =>
    /\ ret.val.kind = "int"
    /\ ~ret.val.neg
    /\ Denotes(UnsignedPart(ret.arg.str), ret.val.digits)

\* C3 amended: for every PORT that is an integer string n with 0 < n <= 2^53,
\* Env.port returns n exactly.
PortReturnsPositiveIntegerUpTo2Pow53 ==
  (/\ ret.acc = "port"
   /\ ret.arg.defined
   /\ PositiveIntegerString(ret.arg.str)
   /\ DigitsLeq(StripZeros(UnsignedPart(ret.arg.str)), TwoPow53)) =>
    /\ ret.val.kind = "int"
    /\ ~ret.val.neg
    /\ Denotes(UnsignedPart(ret.arg.str), ret.val.digits)

\* C3 witness: Env.port was read with PORT = "9007199254740992" (2^53) and
\* returned that number
PortReturnsTwoPow53 ==
  /\ ret.acc = "port"
  /\ ret.arg = Str(TwoPow53)
  /\ ret.val = IntNumber(FALSE, TwoPow53)

\* C4: for every PORT that is an integer string n <= 0, and for every PORT that
\* is not an integer string at all (a numeric prefix followed by other
\* characters included), Env.port returns 5001.
PortRejectsNonIntegers ==
  (/\ ret.acc = "port"
   /\ ret.arg.defined
   /\ \/ NonPositiveIntegerString(ret.arg.str)
      \/ ~PaddedIntegerString(ret.arg.str)) => ret.val = Num(DefaultPort)

(***************************************************************************)
(* Env.corsOrigin                                                          *)
(***************************************************************************)

CorsListNeverEmpty ==
  ret.acc = "corsOrigin" =>
    /\ ret.val.kind = "list" => Len(ret.val.items) > 0
    /\ (ret.arg.defined /\ OnlyCommasAndBlanks(ret.arg.str)) =>
         ret.val = OriginList(<<DefaultOrigin>>)

\* C6 witness: Env.corsOrigin was read with CORS_ORIGIN = ", ," and returned
\* the default list
CorsEmptySegmentsGiveDefault ==
  /\ ret.acc = "corsOrigin"
  /\ ret.arg = Str(<<",", " ", ",">>)
  /\ ret.val = OriginList(<<DefaultOrigin>>)

\* C7: when CORS_ORIGIN is set, is not the wildcard and has a non-empty
\* segment, Env.corsOrigin returns the comma-separated segments, each trimmed,
\* the empty ones removed, in their order and with duplicates kept.
CorsReturnsTrimmedSegments ==
  (/\ ret.acc = "corsOrigin"
   /\ ret.arg.defined
   /\ ~IsPaddedStar(ret.arg.str)
   /\ ~OnlyCommasAndBlanks(ret.arg.str)) =>
    ret.val = OriginList(ExpectedOrigins(ret.arg.str))

\* C7 witness: Env.corsOrigin was read with CORS_ORIGIN = " a , ,b " and
\* returned ["a", "b"]
CorsSegmentsTrimmedAndFiltered ==
  /\ ret.acc = "corsOrigin"
  /\ ret.arg = Str(<<" ", "a", " ", ",", " ", ",", "b", " ">>)
  /\ ret.val = OriginList(<<<<"a">>, <<"b">>>>)

SkipAuthIffTrue ==
  ret.acc = "skipAuth" =>
    /\ ret.val \in BOOLEAN
    /\ ret.val <=> (ret.arg.defined /\ IsPaddedTrue(ret.arg.str))

\* C9 witness: Env.skipAuth was read with SKIP_AUTH = " TrUe" and returned true
SkipAuthMixedCaseTrue ==
  /\ ret.acc = "skipAuth"
  /\ ret.arg = Str(<<" ", "T", "r", "U", "e">>)
  /\ ret.val = TRUE

\* C10: Env.nodeEnv returns the value of NODE_ENV verbatim when it is set and
\* undefined when it is unset.
NodeEnvVerbatim ==
  ret.acc = "nodeEnv" => ret.val = ret.arg

\* C10 witness: Env.nodeEnv was read with NODE_ENV = " dev " and returned it
\* with its white space
NodeEnvKeepsWhiteSpace ==
  /\ ret.acc = "nodeEnv"
  /\ ret.val = Str(<<" ", "d", "e", "v", " ">>)

(***************************************************************************)
(* All four accessors                                                      *)
(***************************************************************************)

IsString(s) == DOMAIN s = 1..Len(s) /\ \A i \in 1..Len(s) : s[i] \in STRING

\* C11: every accessor is total: for every combination of unset and string
\* values of the four variables, each read returns a value of its declared
\* type (string | undefined, boolean, '*' | string[], number) and raises no
\* error.
AccessorsAreTotal ==
  ret.acc # "none" =>
    /\ ~ret.threw
    /\ ret.acc = "nodeEnv" =>
         ret.val.defined \in BOOLEAN /\ IsString(ret.val.str)
    /\ ret.acc = "skipAuth" => ret.val \in BOOLEAN
    /\ ret.acc = "corsOrigin" =>
         \/ ret.val = Wildcard
         \/ /\ ret.val.kind = "list"
            /\ \A i \in 1..Len(ret.val.items) : IsString(ret.val.items[i])
    /\ ret.acc = "port" => ret.val.kind \in {"int", "NaN", "Infinity"}

\* C11 witness: Env.skipAuth was read while SKIP_AUTH and PORT were unset and
\* CORS_ORIGIN held ",a,", and returned false without raising
SkipAuthReadWhileUnset ==
  /\ ret.acc = "skipAuth"
  /\ ~ret.arg.defined
  /\ ~env["PORT"].defined
  /\ env["CORS_ORIGIN"] = Str(<<",", "a", ",">>)
  /\ ~ret.threw
  /\ ret.val = FALSE

KeyOf(acc) ==
  CASE acc = "nodeEnv" -> "NODE_ENV"
    [] acc = "skipAuth" -> "SKIP_AUTH"
    [] acc = "corsOrigin" -> "CORS_ORIGIN"
    [] acc = "port" -> "PORT"

\* What Env.corsOrigin is to return for the value arg of CORS_ORIGIN
ExpectedCorsOrigin(arg) ==
  IF ~arg.defined \/ IsBlank(arg.str) THEN OriginList(<<DefaultOrigin>>)
  ELSE IF IsPaddedStar(arg.str) THEN Wildcard
  ELSE IF OnlyCommasAndBlanks(arg.str) THEN OriginList(<<DefaultOrigin>>)
  ELSE OriginList(ExpectedOrigins(arg.str))

\* C12: accessor values are never cached: after any sequence of changes to the
\* environment, each read of an accessor returns the value computed from the
\* environment as it is at that read, whatever earlier reads returned.
ReadsCurrentEnvironment ==
  [][(ret' # ret \/ refreshed' # refreshed) =>
       /\ ret'.arg = env'[KeyOf(ret'.acc)]
       /\ ret'.acc = "nodeEnv" => ret'.val = env'["NODE_ENV"]
       /\ ret'.acc = "skipAuth" =>
            (ret'.val <=> (ret'.arg.defined /\ IsPaddedTrue(ret'.arg.str)))
       /\ ret'.acc = "corsOrigin" => ret'.val = ExpectedCorsOrigin(ret'.arg)
       /\ ret'.acc = "port" =>
            ret'.val = Env_parseInt(env'["PORT"], Num(DefaultPort))]_vars

\* C12 witness: Env.port was read, PORT was then set to "80", and Env.port,
\* read again, returned 80
PortRereadAfterChange ==
  /\ refreshed
  /\ ret.acc = "port"
  /\ ret.arg = Str(<<"8", "0">>)
  /\ ret.val = Num(80)

(***************************************************************************)
(* Utils.trim                                                              *)
(*                                                                         *)
(* The claims speak of nested values: TreeOf reads the nested value that a *)
(* heap value denotes (a container's own keys and elements).  A path is a  *)
(* sequence of steps, an index of a sequence or a key of a mapping.        *)
(***************************************************************************)

RECURSIVE TreeOf(_, _)

TreeOf(h, v) ==
  IF v.t = "ref"
    THEN [t |-> h[v.a].t, s |-> <<>>, keys |-> h[v.a].keys,
          kids |-> [i \in 1..Len(h[v.a].items) |-> TreeOf(h, h[v.a].items[i])]]
  ELSE [t |-> v.t, s |-> v.s, keys |-> <<>>, kids |-> <<>>]

IsContainer(x) == x.t \in {"array", "object"}

IsScalar(x) == x.t \in {"string", "number", "boolean", "null", "undefined"}

KeySet(x) == {x.keys[i] : i \in 1..Len(x.keys)}

AtIndex(i) == [i |-> i, key |-> <<>>]

AtKey(key) == [i |-> 0, key |-> key]

Steps(x) ==
  IF x.t = "array" THEN {AtIndex(i) : i \in 1..Len(x.kids)}
  ELSE IF x.t = "object" THEN {AtKey(k) : k \in KeySet(x)}
  ELSE {}

Child(x, step) ==
  IF x.t = "array" THEN x.kids[step.i]
  ELSE x.kids[CHOOSE i \in 1..Len(x.keys) : x.keys[i] = step.key]

RECURSIVE LeafPaths(_), HasPath(_, _), At(_, _), SameShape(_, _)

\* The paths from x to its scalars
LeafPaths(x) ==
  IF IsScalar(x) THEN {<<>>}
  ELSE UNION { { <<st>> \o p : p \in LeafPaths(Child(x, st)) } : st \in Steps(x) }

HasPath(x, p) ==
  p = <<>> \/ (Head(p) \in Steps(x) /\ HasPath(Child(x, Head(p)), Tail(p)))

At(x, p) == IF p = <<>> THEN x ELSE At(Child(x, Head(p)), Tail(p))

SameShape(x, y) ==
  /\ IsScalar(x) => IsScalar(y)
  /\ IsContainer(x) =>
       /\ y.t = x.t
       /\ Len(y.kids) = Len(x.kids)
       /\ KeySet(y) = KeySet(x)
       /\ \A st \in Steps(x) : SameShape(Child(x, st), Child(y, st))

\* The argument of the first call and the value it returned
TrimArgument == TreeOf(heap0, tin)

TrimResult == TreeOf(heap, touts[1])

Returns == touts # <<>>

\* C13: Utils.trim(v) has the shape of v: a sequence gives a sequence of the
\* same length, a mapping a mapping with the same key set, a scalar a scalar,
\* at every level of nesting.
TrimKeepsShape == Returns => SameShape(TrimArgument, TrimResult)

TrimmedText == <<"a", " ", "b">>

PaddedText == <<" ", "\t", "a", " ", "b", "\n">>

\* C14: Utils.trim is idempotent: what Utils.trim returns for the value it
\* returned is structurally equal to that value.
TrimIsIdempotent ==
  Len(touts) = 2 => TreeOf(heap, touts[2]) = TreeOf(heap, touts[1])

TrimmedTwiceNested ==
  /\ Len(touts) = 2
  /\ TrimArgument = ArrayOf(<<ObjectOf(<<<<"a">>>>, <<Leaf("string", PaddedText)>>)>>)
  /\ TreeOf(heap, touts[2]) =
       ArrayOf(<<ObjectOf(<<<<"a">>>>, <<Leaf("string", TrimmedText)>>)>>)

\* s without the white space at its two ends
Trimmed(s) == Core(s, 0, Len(s) + 1)

\* C15: for every path to a string leaf of v, Utils.trim(v) has at the same
\* path that string without its leading and trailing white space (interior
\* white space kept, a string of white space becomes empty); the elements of
\* sequences keep their positions.
TrimTrimsEveryStringLeaf ==
  Returns =>
    \A p \in LeafPaths(TrimArgument) :
      At(TrimArgument, p).t = "string" =>
        /\ HasPath(TrimResult, p)
        /\ At(TrimResult, p) = Leaf("string", Trimmed(At(TrimArgument, p).s))

\* C16: numbers, booleans, null and undefined are returned as the identical
\* value, at top level and as leaves inside containers.
TrimKeepsEveryOtherScalar ==
  /\ ~tthrew
  /\ Returns =>
       \A p \in LeafPaths(TrimArgument) :
         At(TrimArgument, p).t \in {"number", "boolean", "null", "undefined"} =>
           /\ HasPath(TrimResult, p)
           /\ At(TrimResult, p) = At(TrimArgument, p)

RECURSIVE ContainersOf(_, _)

\* The addresses of the containers that v is made of: v itself, the values it
\* holds and its prototype, and theirs
ContainersOf(h, v) ==
  IF v.t # "ref" THEN {}
  ELSE {v.a}
       \cup UNION {ContainersOf(h, h[v.a].items[i]) : i \in 1..Len(h[v.a].items)}
       \cup ContainersOf(h, h[v.a].proto)

\* C17: a call of Utils.trim changes no container that exists when it is
\* called, its argument's among them, and every container of the value it
\* returns is created by the call.
TrimNeverMutates ==
  [][touts' # touts =>
       /\ SubSeq(heap', 1, Len(heap)) = heap
       /\ ContainersOf(heap', touts'[Len(touts')]) \cap 1..Len(heap) = {}]_vars

NestedArgumentIntact ==
  /\ Returns
  /\ TrimArgument = ArrayOf(<<ArrayOf(<<Leaf("string", PaddedText)>>)>>)
  /\ TreeOf(heap, tin) = TrimArgument
  /\ TrimResult = ArrayOf(<<ArrayOf(<<Leaf("string", TrimmedText)>>)>>)
  /\ ContainersOf(heap, touts[1]) \cap ContainersOf(heap, tin) = {}

\* v is a scalar or a reference to a container of h
IsValue(h, v) == IsScalar(v) \/ (v.t = "ref" /\ v.a \in 1..Len(h))

MiddlewareOrder == <<"cors", "json", "urlencoded", "trimmer">>

\* C19: the layers a request passes are, in this order, CORS, the JSON parser,
\* the URL-encoded parser and the body trimmer, all four before a route
\* handler receives it; the body a route handler receives is the request's
\* body with every string trimmed.
HandlersSeeTrimmedBody ==
  /\ \A i \in 1..Len(passed) :
       i <= Len(MiddlewareOrder) => passed[i] = MiddlewareOrder[i]
  /\ outcome = "handled" =>
       /\ Len(passed) > Len(MiddlewareOrder)
       /\ \A p \in LeafPaths(TreeOf(heap, seen)) :
            At(TreeOf(heap, seen), p).t = "string" =>
              /\ HasPath(req.payload, p)
              /\ At(TreeOf(heap, seen), p).s = Trimmed(At(req.payload, p).s)

JsonBodyHandledTrimmed ==
  /\ outcome = "handled"
  /\ req.ctype = "json"
  /\ req.payload = ObjectOf(<<<<"a">>>>, <<Leaf("string", PaddedText)>>)
  /\ TreeOf(heap, seen) = ObjectOf(<<<<"a">>>>, <<Leaf("string", TrimmedText)>>)
  /\ passed = <<"cors", "json", "urlencoded", "trimmer", "enableCors", "routes">>

(***************************************************************************)
(* expressApp.listen                                                       *)
(***************************************************************************)

\* C20: the Express application listens on Env.port only when NODE_ENV is
\* 'dev'.
ListensOnlyInDev == listening.on => env["NODE_ENV"] = Str(<<"d", "e", "v">>)

(***************************************************************************)
(* Env.corsOrigin: the default and the elements of a list                  *)
(***************************************************************************)

LocalhostOnly ==
  [kind |-> "list",
   items |-> << <<"h", "t", "t", "p", ":", "/", "/", "l", "o", "c", "a", "l", "h",
                  "o", "s", "t", ":", "3", "0", "0", "0">> >>]

CorsElementsAreClean ==
  (ret.acc = "corsOrigin" /\ ret.val.kind = "list") =>
    \A i \in 1..Len(ret.val.items) :
      LET x == ret.val.items[i]
      IN /\ Len(x) > 0
         /\ x[1] \notin WhiteSpace
         /\ x[Len(x)] \notin WhiteSpace
         /\ \A j \in 1..Len(x) : x[j] # ","

CorsLeadingCommaDropped ==
  /\ ret.acc = "corsOrigin"
  /\ ret.arg = Str(<<",", "a", " ">>)
  /\ ret.val = OriginList(<< <<"a">> >>)

(***************************************************************************)
(* The accessors in any order                                              *)
(***************************************************************************)

\* C28: two accesses of the same accessor made in environments that agree on
\* the accessor's own variable return the same value, whatever the other
\* variables are and whatever was accessed in between.
AccessorsAreIndependent ==
  (/\ reads.first.acc # "none"
   /\ reads.first.acc = reads.last.acc
   /\ reads.first.env[KeyOf(reads.first.acc)] = reads.last.env[KeyOf(reads.last.acc)]) =>
    /\ reads.last.threw = reads.first.threw
    /\ reads.last.val = reads.first.val

SkipAuthSameWhenNodeEnvChanged ==
  /\ reads.first.acc = "skipAuth"
  /\ reads.last.acc = "skipAuth"
  /\ reads.first.env["SKIP_AUTH"] = Str(<<"t", "r", "u", "e">>)
  /\ reads.last.env["SKIP_AUTH"] = Str(<<"t", "r", "u", "e">>)
  /\ reads.first.env["NODE_ENV"] = Str(<<"d", "e", "v">>)
  /\ reads.last.env["NODE_ENV"] = Undefined
  /\ reads.first.env["PORT"] # reads.last.env["PORT"]
  /\ reads.first.val = TRUE
  /\ reads.last.val = TRUE

(***************************************************************************)
(* The body trimmer                                                        *)
(***************************************************************************)

IsFalsy(v) ==
  v \in {VUndefined, VNull, VString(<<>>), VNumber(<<"0">>),
         VBoolean(<<"f", "a", "l", "s", "e">>)}

\* C24: when the body trimmer runs on a request it calls next() once, and it
\* runs once: the request goes on to the next layer.  A falsy body is left as
\* it is; a truthy body is replaced by a new value in which every string is
\* the body's string at that path, trimmed.
TrimmerCallsNextOnce ==
  [][passed' = Append(passed, "trimmer") =>
       /\ nexts = 0
       /\ nexts' = 1
       /\ pos' = pos + 1
       /\ outcome' = outcome
       /\ IsFalsy(body) => (body' = body /\ heap' = heap)
       /\ ~IsFalsy(body) =>
            /\ body'.t = "ref"
            /\ body'.a > Len(heap)
            /\ \A p \in LeafPaths(TreeOf(heap', body')) :
                 At(TreeOf(heap', body'), p).t = "string" =>
                   /\ HasPath(TreeOf(heap, body), p)
                   /\ At(TreeOf(heap', body'), p).s =
                        Trimmed(At(TreeOf(heap, body), p).s)]_vars

ZeroBodyPassedOn ==
  /\ nexts = 1
  /\ req.preset = VNumber(<<"0">>)
  /\ outcome = "handled"
  /\ seen = VNumber(<<"0">>)
  /\ heap = <<>>

(***************************************************************************)
(* createNestApplication, the handler and listen                           *)
(***************************************************************************)

\* Call p starts in this step
Starts(p) == pc[p] = "idle" /\ pc'[p] # "idle"

\* x is the instance of a call whose app.init() has resolved
Initialized(x, pcs, apps) ==
  \E q \in Calls : apps[q] = x /\ x # NoApp /\ pcs[q] \in {"resolved", "done"}

\* C23: once cachedApp holds an instance it is never null again, and a call
\* of createNestApplication that starts then returns the cached instance at
\* once: NestFactory.create and app.init are not called for it.
CachedInstanceIsReused ==
  [][/\ cachedApp # NoApp => cachedApp' # NoApp
     /\ \A p \in Calls :
          (Starts(p) /\ cachedApp # NoApp) =>
            /\ pc'[p] = "resolved"
            /\ result'[p] = cachedApp
            /\ created' = created
            /\ app' = app]_vars

RequestServedFromCache ==
  /\ pc[<<"request", 1>>] = "resolved"
  /\ app[<<"request", 1>>] = NoApp
  /\ result[<<"request", 1>>] = cachedApp
  /\ cachedApp = NewApp(Load)
  /\ created = 1

\* C25: a request that the handler has handed to expressApp is one whose
\* createNestApplication call returned an instance, and that instance is one
\* whose app.init() has resolved.
DispatchedOnlyAfterInit ==
  \A p \in Requests :
    pc[p] = "done" =>
      /\ result[p] # NoApp
      /\ Initialized(result[p], pc, app)
      /\ cachedApp # NoApp

DispatchedWhileOtherInitializes ==
  /\ pc[<<"request", 1>>] = "done"
  /\ result[<<"request", 1>>] = NewApp(Load)
  /\ pc[<<"request", 2>>] = "awaitInit"

\* C26: a call of createNestApplication that fails leaves cachedApp as it was,
\* cachedApp only ever holds an instance whose app.init() has resolved, and a
\* call that starts while cachedApp is null constructs again.
FailureCachesNothing ==
  [][/\ \A p \in Calls :
          (pc[p] # "rejected" /\ pc'[p] = "rejected") => cachedApp' = cachedApp
     /\ cachedApp' # NoApp => Initialized(cachedApp', pc', app')
     /\ \A p \in Calls :
          (Starts(p) /\ cachedApp = NoApp) =>
            /\ pc'[p] = "awaitCreate"
            /\ created' = created + 1]_vars

ConstructsAgainAfterFailedInit ==
  /\ pc[Load] = "rejected"
  /\ app[Load] # NoApp
  /\ cachedApp = NoApp
  /\ pc[<<"request", 1>>] = "awaitCreate"
  /\ created = 2

\* C27: expressApp.listen has been called only if the createNestApplication
\* call of the module load has resolved, after its app.init(); if that call
\* failed, listen is not called.
ListensOnlyAfterInit ==
  /\ listening.on =>
       /\ pc[Load] = "done"
       /\ Initialized(result[Load], pc, app)
  /\ pc[Load] \in {"idle", "awaitCreate", "awaitInit", "rejected"} => ~listening.on

ListeningOnConfiguredPort ==
  /\ listening.on
  /\ listening.port = Num(80)
  /\ pc[Load] = "done"
  /\ result[Load] = NewApp(Load)
  /\ cachedApp # NoApp

(***************************************************************************)
(* The environment file                                                    *)
(***************************************************************************)

\* C21: when the module has been loaded, NODE_ENV = dev has loaded .env.dev,
\* NODE_ENV = prod has loaded .env.production, and with NODE_ENV unset no
\* file has been loaded.
EnvFileChosenAsDocumented ==
  dotenv.ran =>
    /\ env["NODE_ENV"] = Str(<<"d", "e", "v">>) =>
         dotenv.path = Str(<<".", "e", "n", "v", ".", "d", "e", "v">>)
    /\ env["NODE_ENV"] = Str(<<"p", "r", "o", "d">>) =>
         dotenv.path = Str(<<".", "e", "n", "v", ".", "p", "r", "o", "d", "u", "c",
                             "t", "i", "o", "n">>)
    /\ ~env["NODE_ENV"].defined => ~dotenv.path.defined

====
